---- MODULE Spec2Model ----
(* Model of the sleep-log sync engine of IoTHealth (src/sleep.py):            *)
(* Sleep.__init__, update_local_logs, initialize_csv, capture_explicit_data.  *)
(* One run of the program is one construction of a Sleep object; the only     *)
(* suspension point inside a run is the blocking provider request.            *)
EXTENDS Integers, Sequences, FiniteSets, TLC

VARIABLES
    file,        \* sleep.csv: [exists |-> BOOLEAN, rows |-> sequence of csv lines]
    today,       \* self.today, a "%Y-%m-%d" date string
    pc,          \* "idle", "awaiting" (inside sleeplogs_range), "done", "failed"
    mode,        \* which branch of __init__ runs: "none", "update", "init"
    local_logs,  \* the table update_local_logs read from sleep.csv
    requests,    \* the date ranges passed to fitbit.sleeplogs_range in this run
    raw_logs,    \* raw_logs['sleep'] as the provider returned it
    responded,   \* whether sleeplogs_range has returned in this run
    sleep_logs,  \* self.sleep_logs, the table the run returns
    err,         \* the exception that ended the run, "none" otherwise
    writes,      \* number of to_csv calls of this run
    fileBefore,  \* sleep.csv as it was when the run started
    provider,    \* the sleep logs the provider holds, in the order it lists them
    prev         \* how the preceding run ended

vars == <<file, today, pc, mode, local_logs, requests, raw_logs, responded,
          sleep_logs, err, writes, fileBefore, provider, prev>>

-----------------------------------------------------------------------------
(* Bounds of the model *)

MaxRows == 2
MaxResp == 2
NumDays == 3
MaxData == 2

-----------------------------------------------------------------------------
(* Dates. A date string "%Y-%m-%d" is the tuple <<year, month, day>> of its    *)
(* zero-padded fields; a datetime is the day's ordinal within the year 2018.   *)

DaysInMonth(m) ==
    IF m = 2 THEN 28
    ELSE IF m \in {4, 6, 9, 11} THEN 30
    ELSE 31

RECURSIVE DaysBefore(_)
DaysBefore(m) == IF m = 1 THEN 0 ELSE DaysBefore(m - 1) + DaysInMonth(m - 1)

\* dt.strptime(s, "%Y-%m-%d")
strptime(s) == DaysBefore(s[2]) + s[3]

\* datetime.strftime("%Y-%m-%d")
strftime(n) ==
    LET m == CHOOSE k \in 1..12 : DaysBefore(k) < n /\ n <= DaysBefore(k) + DaysInMonth(k)
    IN  <<2018, m, n - DaysBefore(m)>>

\* string comparison of two zero-padded date strings (lexicographic)
StrLess(a, b) ==
    \/ a[1] < b[1]
    \/ a[1] = b[1] /\ a[2] < b[2]
    \/ a[1] = b[1] /\ a[2] = b[2] /\ a[3] < b[3]

EpochDate == <<2018, 8, 7>>

FirstDay == strptime(<<2018, 8, 30>>)

\* the calendar days the model's clock and provider range over
Days == { strftime(FirstDay + i) : i \in 0..(NumDays - 1) }

-----------------------------------------------------------------------------
(* capture_explicit_data: raw provider records to table rows *)

dict_labels == <<"dateOfSleep", "minutesAfterWakeup", "minutesToFallAsleep", "startTime">>

stages_labels == <<"deep", "light", "rem", "wake">>

\* column order of the DataFrame built from the sleep_log dictionary
Columns == dict_labels \o stages_labels \o <<"efficiency", "duration">>

Range(seq) == { seq[i] : i \in 1..Len(seq) }

\* list.reverse()
Reverse(seq) == [i \in 1..Len(seq) |-> seq[Len(seq) + 1 - i]]

\* round(num / den, 2), in hundredths (ties go to the even hundredth)
Round2(num, den) ==
    LET q == (100 * num) \div den
        r == (100 * num) % den
    IN  IF 2 * r > den THEN q + 1
        ELSE IF 2 * r < den THEN q
        ELSE IF q % 2 = 0 THEN q ELSE q + 1

\* log_raw[label] for every label read by the loop body exists
HasLabels(log_raw) ==
    /\ \A i \in 1..Len(dict_labels) : dict_labels[i] \in DOMAIN log_raw
    /\ "levels" \in DOMAIN log_raw
    /\ "summary" \in DOMAIN log_raw.levels
    /\ \A i \in 1..Len(stages_labels) :
          /\ stages_labels[i] \in DOMAIN log_raw.levels.summary
          /\ "minutes" \in DOMAIN log_raw.levels.summary[stages_labels[i]]

StageMinutes(log_raw, label) == log_raw.levels.summary[label].minutes

DurationTotal(log_raw) ==
    StageMinutes(log_raw, "deep") + StageMinutes(log_raw, "light")
        + StageMinutes(log_raw, "rem") + StageMinutes(log_raw, "wake")

DurationSleep(log_raw) ==
    StageMinutes(log_raw, "deep") + StageMinutes(log_raw, "light")
        + StageMinutes(log_raw, "rem")

\* duration_sleep / duration_total on Python ints raises when the divisor is 0
DivisionRaises(log_raw) == DurationTotal(log_raw) = 0

\* one pass of the loop body: the exception it raises, or the sleep_log it appends
DecodeOne(log_raw) ==
    IF ~HasLabels(log_raw) THEN [err |-> "KeyError"]
    ELSE IF DivisionRaises(log_raw) THEN [err |-> "ZeroDivisionError"]
    ELSE [err |-> "none",
          log |-> [dateOfSleep         |-> log_raw.dateOfSleep,
                   minutesAfterWakeup  |-> log_raw.minutesAfterWakeup,
                   minutesToFallAsleep |-> log_raw.minutesToFallAsleep,
                   startTime           |-> log_raw.startTime,
                   deep                |-> StageMinutes(log_raw, "deep"),
                   light               |-> StageMinutes(log_raw, "light"),
                   rem                 |-> StageMinutes(log_raw, "rem"),
                   wake                |-> StageMinutes(log_raw, "wake"),
                   efficiency          |-> Round2(DurationSleep(log_raw), DurationTotal(log_raw)),
                   duration            |-> DurationTotal(log_raw)]]

\* pd.concat(frames) of one-row frames: raises on an empty list
ConcatFrames(frames) ==
    IF Len(frames) = 0 THEN [err |-> "ValueError", table |-> <<>>]
    ELSE [err |-> "none", table |-> frames]

\* the whole function: the first record that raises ends it; otherwise the
\* decoded rows, reversed, are concatenated into the table indexed by dateOfSleep
capture_explicit_data(sleep_logs_raw) ==
    LET bad == { i \in 1..Len(sleep_logs_raw) : DecodeOne(sleep_logs_raw[i]).err # "none" }
    IN  IF bad # {}
        THEN [err   |-> DecodeOne(sleep_logs_raw[CHOOSE i \in bad : \A j \in bad : i <= j]).err,
              table |-> <<>>]
        ELSE ConcatFrames(Reverse([i \in 1..Len(sleep_logs_raw) |->
                                      DecodeOne(sleep_logs_raw[i]).log]))

-----------------------------------------------------------------------------
(* sleep.csv *)

\* DataFrame.to_csv: a line per row, the fields in column order
to_csv(table) == [i \in 1..Len(table) |-> [c \in 1..Len(Columns) |-> table[i][Columns[c]]]]

\* pd.read_csv(...).set_index("dateOfSleep"): a row per line, keyed by the header
read_csv(lines) ==
    [i \in 1..Len(lines) |->
        [name \in Range(Columns) |-> lines[i][CHOOSE c \in 1..Len(Columns) : Columns[c] = name]]]

\* local_logs.index.max() over date strings
IndexMax(table) ==
    CHOOSE d \in { table[i].dateOfSleep : i \in 1..Len(table) } :
        \A i \in 1..Len(table) : ~StrLess(d, table[i].dateOfSleep)

\* sleep_logs.index = pd.to_datetime(sleep_logs.index)
to_datetime(table) ==
    [i \in 1..Len(table) |-> [table[i] EXCEPT !.dateOfSleep = strptime(table[i].dateOfSleep)]]

-----------------------------------------------------------------------------
(* The provider (Fitbit.sleeplogs_range): an opaque source of raw records *)

RawRecord(d, p) ==
    [dateOfSleep         |-> d,
     minutesAfterWakeup  |-> 0,
     minutesToFallAsleep |-> 0,
     startTime           |-> "T",
     levels |-> [summary |-> [deep  |-> [minutes |-> p[1]],
                              light |-> [minutes |-> p[2]],
                              rem   |-> [minutes |-> p[3]],
                              wake  |-> [minutes |-> p[4]]]]]

\* a record that lacks its levels summary
PartialRecord(d) ==
    [dateOfSleep         |-> d,
     minutesAfterWakeup  |-> 0,
     minutesToFallAsleep |-> 0,
     startTime           |-> "T"]

\* records that cannot be decoded fail whatever their date: one date stands for all
RawRecords ==
    { RawRecord(d, <<60, 120, 30, 10>>) : d \in Days }
        \cup { RawRecord(strftime(FirstDay), <<0, 0, 0, 0>>), PartialRecord(strftime(FirstDay)) }

\* raw_logs['sleep']: any records, in any order, repeated dates included
Responses == UNION { [1..n -> RawRecords] : n \in 0..MaxResp }

-----------------------------------------------------------------------------
(* Sleep.__init__, update_local_logs, initialize_csv *)

NoFile == [exists |-> FALSE, rows |-> <<>>]

\* os.path.isfile(path) and os.access(path, os.R_OK)
FileReadable(f) == f.exists

\* the comparison with today never succeeds
UpToDate_Never(latest_date_local, t) == FALSE

\* latest_date_local == self.today
UpToDate(latest_date_local, t) == latest_date_local = t

\* the range starts on the latest local date itself
NextDateLocal_NoIncrement(latest_date_local) == strftime(strptime(latest_date_local))

\* (latest_date_local + timedelta(days=1)).strftime("%Y-%m-%d")
NextDateLocal(latest_date_local) == strftime(strptime(latest_date_local) + 1)

\* date_range of update_local_logs
GapRange(latest_date_local, t) == <<NextDateLocal(latest_date_local), t>>

\* date_range of initialize_csv
FullRange(t) == <<EpochDate, t>>

\* the empty response is not told apart
NoNewLogs_Never(raw) == FALSE

\* not raw_logs['sleep']
NoNewLogs(raw) == Len(raw) = 0

\* pd.concat([local_logs, api_logs])
pd_concat(local, api) == local \o api

\* update_local_logs after the request returned: the exception raised, or the
\* table it returns and whether it wrote sleep.csv
UpdateOutcome(local, raw) ==
    IF NoNewLogs(raw)
    THEN [err |-> "none", table |-> local, write |-> FALSE]
    ELSE LET api_logs == capture_explicit_data(raw)
         IN  IF api_logs.err # "none"
             THEN [err |-> api_logs.err, table |-> <<>>, write |-> FALSE]
             ELSE [err |-> "none", table |-> pd_concat(local, api_logs.table), write |-> TRUE]

\* sleep.csv is opened for writing before the records are decoded
InitOutcome_WriteBeforeDecode(raw) ==
    LET logs == capture_explicit_data(raw)
    IN  [err |-> logs.err, table |-> logs.table, write |-> TRUE]

\* initialize_csv after the request returned
InitOutcome(raw) ==
    LET logs == capture_explicit_data(raw)
    IN  IF logs.err # "none"
        THEN [err |-> logs.err, table |-> <<>>, write |-> FALSE]
        ELSE [err |-> "none", table |-> logs.table, write |-> TRUE]

\* before the first run: no sleep.csv, no Sleep object
InitRun ==
    /\ file = NoFile
    /\ today = <<>>
    /\ pc = "idle"
    /\ mode = "none"
    /\ local_logs = <<>>
    /\ requests = <<>>
    /\ raw_logs = <<>>
    /\ responded = FALSE
    /\ sleep_logs = <<>>
    /\ err = "none"
    /\ writes = 0
    /\ fileBefore = NoFile

\* no run came before
NoPrev ==
    [ran |-> FALSE, today |-> <<>>, file |-> NoFile, sleep_logs |-> <<>>, err |-> "none",
     wrote |-> FALSE]

Init ==
    /\ InitRun
    /\ provider = <<>>
    /\ prev = NoPrev

\* a new run may start when no run is in progress; the clock does not go back
\* (runs are explored while sleep.csv holds at most MaxRows rows)
CanStart(t) ==
    /\ pc \in {"idle", "done", "failed"}
    /\ Len(file.rows) <= MaxRows
    /\ IF today = <<>> THEN TRUE ELSE ~StrLess(t, today)

\* __init__ taking the update_local_logs branch, up to the provider request
update_local_logs(t) ==
    /\ CanStart(t)
    /\ FileReadable(file)
    /\ LET local == read_csv(file.rows)
           latest_date_local == IndexMax(local)
       IN  /\ local_logs' = local
           /\ IF UpToDate(latest_date_local, t)
              THEN /\ sleep_logs' = to_datetime(local)
                   /\ requests' = <<>>
                   /\ pc' = "done"
              ELSE /\ sleep_logs' = <<>>
                   /\ requests' = <<GapRange(latest_date_local, t)>>
                   /\ pc' = "awaiting"
    /\ today' = t
    /\ mode' = "update"
    /\ raw_logs' = <<>>
    /\ responded' = FALSE
    /\ err' = "none"
    /\ writes' = 0
    /\ fileBefore' = file
    /\ UNCHANGED file

\* __init__ taking the initialize_csv branch, up to the provider request
initialize_csv(t) ==
    /\ CanStart(t)
    /\ ~FileReadable(file)
    /\ today' = t
    /\ mode' = "init"
    /\ local_logs' = <<>>
    /\ requests' = <<FullRange(t)>>
    /\ pc' = "awaiting"
    /\ raw_logs' = <<>>
    /\ responded' = FALSE
    /\ sleep_logs' = <<>>
    /\ err' = "none"
    /\ writes' = 0
    /\ fileBefore' = file
    /\ UNCHANGED file

\* the rest of the run once the request returned: to_csv when the outcome
\* wrote the table, then the exception propagates or the table is returned
Finish(out) ==
    /\ err' = out.err
    /\ IF out.write
       THEN /\ file' = [exists |-> TRUE, rows |-> to_csv(out.table)]
            /\ writes' = writes + 1
       ELSE UNCHANGED <<file, writes>>
    /\ IF out.err # "none"
       THEN /\ pc' = "failed"
            /\ sleep_logs' = <<>>
       ELSE /\ pc' = "done"
            /\ sleep_logs' = to_datetime(out.table)

\* fitbit.sleeplogs_range returns raw, and the run goes on to its end
sleeplogs_range_returns(raw) ==
    /\ pc = "awaiting"
    /\ raw_logs' = raw
    /\ responded' = TRUE
    /\ Finish(IF mode = "update" THEN UpdateOutcome(local_logs, raw) ELSE InitOutcome(raw))
    /\ UNCHANGED <<today, mode, local_logs, requests, fileBefore>>

\* fitbit.sleeplogs_range raises (network or authorisation failure)
sleeplogs_range_raises ==
    /\ pc = "awaiting"
    /\ pc' = "failed"
    /\ err' = "ProviderError"
    /\ UNCHANGED <<file, today, mode, local_logs, requests, raw_logs, responded,
                   sleep_logs, writes, fileBefore>>

Next ==
    \/ \E t \in Days : update_local_logs(t) /\ UNCHANGED <<provider, prev>>
    \/ \E t \in Days : initialize_csv(t) /\ UNCHANGED <<provider, prev>>
    \/ \E raw \in Responses : sleeplogs_range_returns(raw) /\ UNCHANGED <<provider, prev>>
    \/ sleeplogs_range_raises /\ UNCHANGED <<provider, prev>>

Spec == Init /\ [][Next]_vars

-----------------------------------------------------------------------------
(* Successive runs against a provider that answers range queries from the     *)
(* sleep logs it holds: the response to (start, end) is the held records dated *)
(* start..end inclusive, in the provider's order.                              *)

\* the sleep logs a provider may hold
Datasets == UNION { [1..n -> RawRecords] : n \in 0..MaxData }

InRange(d, date_range) == ~StrLess(d, date_range[1]) /\ ~StrLess(date_range[2], d)

\* fitbit.sleeplogs_range(date_range) on the held logs
sleeplogs_range(data, date_range) ==
    LET hit == { i \in 1..Len(data) : InRange(data[i].dateOfSleep, date_range) }
        nth(k) == CHOOSE i \in hit : Cardinality({ j \in hit : j < i }) = k - 1
    IN  [k \in 1..Cardinality(hit) |-> data[nth(k)]]

\* how the run that just ended ended, kept when the next one starts
Snapshot ==
    [ran |-> pc # "idle", today |-> today, file |-> file, sleep_logs |-> sleep_logs,
     err |-> err, wrote |-> writes > 0]

InitHeld ==
    /\ InitRun
    /\ provider \in Datasets
    /\ prev = NoPrev

NextHeld ==
    \/ \E t \in Days : update_local_logs(t) /\ prev' = Snapshot /\ UNCHANGED provider
    \/ \E t \in Days : initialize_csv(t) /\ prev' = Snapshot /\ UNCHANGED provider
    \/ sleeplogs_range_returns(sleeplogs_range(provider, requests[1]))
          /\ UNCHANGED <<provider, prev>>
    \/ sleeplogs_range_raises /\ UNCHANGED <<provider, prev>>

SpecHeld == InitHeld /\ [][NextHeld]_vars

-----------------------------------------------------------------------------
(* Vocabulary of the properties *)

\* the dates of the lines of a sleep.csv, in file order
FileDates(f) == [i \in 1..Len(f.rows) |-> f.rows[i][1]]

\* the calendar day after a date string, computed on the calendar itself
DayAfter(s) ==
    IF s[3] < DaysInMonth(s[2]) THEN <<s[1], s[2], s[3] + 1>>
    ELSE IF s[2] < 12 THEN <<s[1], s[2] + 1, 1>>
    ELSE <<s[1] + 1, 1, 1>>

\* the latest date of the sleep.csv the run started from
LatestBefore ==
    CHOOSE d \in Range(FileDates(fileBefore)) :
        \A e \in Range(FileDates(fileBefore)) : ~StrLess(d, e)

\* the returned table holds exactly the lines of f, in order, its index being
\* the same dates as datetimes
SameRowsAs(table, f) ==
    /\ Len(table) = Len(f.rows)
    /\ \A i \in 1..Len(table) :
          /\ strftime(table[i].dateOfSleep) = f.rows[i][1]
          /\ \A c \in 2..Len(Columns) : table[i][Columns[c]] = f.rows[i][c]

\* a run on an existing sleep.csv that has passed the comparison with today
UpdateRun == mode = "update" /\ pc \in {"awaiting", "done", "failed"}

\* every record of the response has all its fields and some stage minutes
AllDecodable(raw) ==
    \A i \in 1..Len(raw) : HasLabels(raw[i]) /\ DurationTotal(raw[i]) > 0

Distinct(seq) == \A i, j \in 1..Len(seq) : i # j => seq[i] # seq[j]

Ascending(seq) == \A i, j \in 1..Len(seq) : i < j => ~StrLess(seq[j], seq[i])

RawDates(raw) == [i \in 1..Len(raw) |-> raw[i].dateOfSleep]

\* no record of the response is dated after today, the end of every requested range
NotAfterToday(raw) == \A i \in 1..Len(raw) : ~StrLess(today, raw[i].dateOfSleep)

-----------------------------------------------------------------------------
(* C1: when sleep.csv exists and its latest date is today, the run issues no   *)
(* provider request, does not write sleep.csv, and returns exactly the rows of *)
(* sleep.csv.                                                                  *)
C1_UpToDateNoOp ==
    (UpdateRun /\ LatestBefore = today) =>
        /\ pc = "done"
        /\ requests = <<>>
        /\ ~responded
        /\ writes = 0
        /\ file = fileBefore
        /\ SameRowsAs(sleep_logs, fileBefore)

C1_Witness ==
    /\ UpdateRun /\ LatestBefore = today
    /\ pc = "done"
    /\ Len(sleep_logs) = 2

(* C2: when sleep.csv exists and its latest date differs from today, the run   *)
(* issues exactly one request, for the range (day after latest, today); the    *)
(* start is later than every date stored locally.                              *)
C2_GapRequest ==
    (UpdateRun /\ LatestBefore # today) =>
        /\ Len(requests) = 1
        /\ requests[1] = <<DayAfter(LatestBefore), today>>
        /\ \A d \in Range(FileDates(fileBefore)) : StrLess(d, requests[1][1])

C2_Witness ==
    /\ UpdateRun /\ LatestBefore # today
    /\ pc = "done" /\ responded
    /\ LatestBefore = <<2018, 8, 31>>
    /\ requests = << << <<2018, 9, 1>>, <<2018, 9, 1>> >> >>

(* C3: when sleep.csv is absent the run requests [2018-08-07, today] and, for  *)
(* every response to it, the empty one included, builds the table from the     *)
(* returned records and writes it as sleep.csv.                                *)
C3_BackfillPersists ==
    (mode = "init" /\ responded /\ AllDecodable(raw_logs)) =>
        /\ requests = << << <<2018, 8, 7>>, today >> >>
        /\ pc = "done"
        /\ file.exists
        /\ Len(file.rows) = Len(raw_logs)
        /\ Range(FileDates(file)) = Range(RawDates(raw_logs))
        /\ SameRowsAs(sleep_logs, file)

(* C4: when sleep.csv exists, its latest date differs from today and the       *)
(* provider returns no record, the local table is returned unchanged and       *)
(* sleep.csv is not written.                                                   *)
C4_EmptyGapNoOp ==
    (UpdateRun /\ LatestBefore # today /\ responded /\ Len(raw_logs) = 0) =>
        /\ pc = "done"
        /\ writes = 0
        /\ file = fileBefore
        /\ SameRowsAs(sleep_logs, fileBefore)

C4_Witness ==
    /\ UpdateRun /\ LatestBefore # today /\ responded /\ Len(raw_logs) = 0
    /\ pc = "done"
    /\ Len(sleep_logs) = 2

(* C5: merge correctness. For a local table of n distinct dates and a response *)
(* of k decodable records with distinct dates all later than the latest local  *)
(* date, delivered in any order, the table returned and written holds exactly  *)
(* the n local and the k new records in ascending date order.                  *)
C5_MergeIsSortedUnion ==
    (/\ UpdateRun /\ responded
     /\ Distinct(FileDates(fileBefore)) /\ Ascending(FileDates(fileBefore))
     /\ AllDecodable(raw_logs) /\ Distinct(RawDates(raw_logs))
     /\ NotAfterToday(raw_logs)
     /\ \A d \in Range(RawDates(raw_logs)) : StrLess(LatestBefore, d)) =>
        /\ pc = "done"
        /\ Len(file.rows) = Len(fileBefore.rows) + Len(raw_logs)
        /\ Range(FileDates(file)) =
              Range(FileDates(fileBefore)) \cup Range(RawDates(raw_logs))
        /\ Ascending(FileDates(file))
        /\ SameRowsAs(sleep_logs, file)

(* C6: when the response to a gap request holds a record whose date is already *)
(* in the local table, the run fails with MergeConflictError and sleep.csv is  *)
(* left as it was.                                                             *)
C6_CollisionRaises ==
    (/\ UpdateRun /\ responded /\ AllDecodable(raw_logs)
     /\ Range(RawDates(raw_logs)) \cap Range(FileDates(fileBefore)) # {}) =>
        /\ pc = "failed"
        /\ err = "MergeConflictError"
        /\ file = fileBefore

(* C7: after any sequence of runs and for any responses, sleep.csv and the     *)
(* returned table hold one record per date.                                    *)
C7_OneRecordPerDate ==
    /\ Distinct(FileDates(file))
    /\ Distinct([i \in 1..Len(sleep_logs) |-> sleep_logs[i].dateOfSleep])

(* C8: after every write the lines of sleep.csv are in ascending date order,   *)
(* whatever the order of the response.                                         *)
C8_FileAscending ==
    (writes = 1 /\ NotAfterToday(raw_logs) /\ Ascending(FileDates(fileBefore))) =>
        Ascending(FileDates(file))

C10_ZeroDurationDecoded ==
    (/\ responded
     /\ \A i \in 1..Len(raw_logs) : HasLabels(raw_logs[i])
     /\ \E i \in 1..Len(raw_logs) : DurationTotal(raw_logs[i]) = 0) =>
        /\ err = "none"
        /\ pc = "done"
        /\ Len(sleep_logs) = Len(local_logs) + Len(raw_logs)
        /\ \E i \in 1..Len(sleep_logs) : sleep_logs[i].duration = 0

(* C11: idempotence. With today and the provider's logs unchanged, and the      *)
(* provider answering both times, a run that follows another ends with the     *)
(* same sleep.csv and the same returned table as the one before it: it writes  *)
(* nothing, and adds, removes and reorders no record.                          *)
C11_SecondRunNoOp ==
    (/\ pc \in {"done", "failed"}
     /\ prev.ran /\ prev.today = today
     /\ prev.err # "ProviderError" /\ err # "ProviderError") =>
        /\ file = prev.file
        /\ sleep_logs = prev.sleep_logs
        /\ err = prev.err
        /\ writes = 0

C11_Witness ==
    /\ pc = "done" /\ responded
    /\ prev.ran /\ prev.today = today /\ prev.wrote
    /\ file = prev.file /\ Len(file.rows) = 2
    /\ Len(sleep_logs) = 2

====
